---- MODULE Spec2Model ----
(***************************************************************************)
(* Approval-flow notification adapter (event/src).                         *)
(*                                                                         *)
(* An inbound push request is decoded, routed on its `type` and handled by *)
(* one of three handlers, each a chain of awaited remote calls.  One       *)
(* action of this model is one stretch of code between two awaits: the     *)
(* arrival of a remote response together with everything the code does     *)
(* until it issues the next remote call, returns or throws.                *)
(*                                                                         *)
(* The connector scripts (connector/) create and delete the subscription   *)
(* that feeds the adapter; they run apart from the event service.          *)
(***************************************************************************)
EXTENDS Integers, Sequences, FiniteSets, TLC

VARIABLES
    pc,        \* per invocation: where the invocation is suspended
    request,   \* per invocation: the inbound HTTP request
    err,       \* per invocation: the error thrown out of post, if any
    status,    \* per invocation: HTTP status written to the response (0: none yet)
    invoked,   \* per invocation: functions of the adapter entered, in order
    calls,     \* per invocation: remote calls issued, in order
    loc,       \* per invocation: local variables of the running handler
    sends,     \* per invocation: state of each sgMail.send promise of the fan-out
    order,     \* the order held by the commerce platform
    subscriptions,  \* the platform's subscriptions with the well-known key
    scriptPc,       \* where the running connector script is suspended
    scriptRun,      \* the function the connector script was started on
    scriptLoc,      \* its local `subscriptions`: the result of the lookup
    scriptCalls,    \* remote calls issued by the current run, in order
    history         \* the runs that are over, oldest first

eventVars == <<pc, request, err, status, invoked, calls, loc, sends, order>>

scriptVars ==
    <<subscriptions, scriptPc, scriptRun, scriptLoc, scriptCalls, history>>

vars ==
    <<pc, request, err, status, invoked, calls, loc, sends, order,
      subscriptions, scriptPc, scriptRun, scriptLoc, scriptCalls, history>>

(***************************************************************************)
(* Bounds of the model.                                                    *)
(***************************************************************************)
MaxApprovers == 2      \* longest currentTierPendingApprovers list
MaxDataLen == 2        \* longest message.data, in units
MaxVersion == 3        \* highest order version the platform hands out
MaxSubscriptionVersion == 2  \* highest version of a subscription found at the start
MaxRuns == 4           \* connector script runs in a row

\* The invocations that can be in flight.
Reqs == {"A", "B"}

(***************************************************************************)
(* Configuration and the data held by the remote platform.                 *)
(***************************************************************************)
config ==
    [orderNeedApprovalStateKey |-> "need-approval",
     orderApprovedStateKey     |-> "approved",
     orderRejectedStateKey     |-> "rejected"]

OrderId == "ord1"
FlowId == "af1"
BusinessUnitKey == "bu1"
RoleKeys == {"r1", "r2", "r3"}

\* businessUnit.associates of the business unit: nobody holds role r3.
Associates ==
    << [customer |-> "c1", roles |-> {"r1"}],
       [customer |-> "c2", roles |-> {"r1", "r2"}],
       [customer |-> "c3", roles |-> {"r2"}] >>

\* Customer records of the platform, in the order a query returns them;
\* c3 has no email address.
CustomerRecords ==
    << [id |-> "c1", email |-> "c1@example.com"],
       [id |-> "c2", email |-> "c2@example.com"],
       [id |-> "c3", email |-> ""] >>

(***************************************************************************)
(* Sequences.                                                              *)
(***************************************************************************)
SeqsUpTo(S, n) == UNION {[1..k -> S] : k \in 0..n}

Range(s) == {s[i] : i \in DOMAIN s}

(***************************************************************************)
(* The notification envelope (the JSON document carried by message.data).  *)
(* An optional object with an optional id is [obj, id]; id "" is an absent *)
(* (falsy) id.                                                             *)
(***************************************************************************)
NoObj == [obj |-> FALSE, id |-> ""]
Obj(id) == [obj |-> TRUE, id |-> id]
Objs(id) == {NoObj, Obj(""), Obj(id)}

NoFlow ==
    [obj |-> FALSE, id |-> "", buObj |-> FALSE, order |-> "",
     hasPending |-> FALSE, pending |-> <<>>]

PendingLists == SeqsUpTo(RoleKeys, MaxApprovers)

\* currentTierPendingApprovers: absent, or a list of approvers (role keys).
PendingFields ==
    {[hasPending |-> FALSE, pending |-> <<>>]}
    \cup {[hasPending |-> TRUE, pending |-> p] : p \in PendingLists}

\* approvalFlow objects: businessUnit present or not, order id present or
\* not, any pending-approvers field.
Flows ==
    {[obj |-> TRUE, id |-> FlowId, buObj |-> b, order |-> o,
      hasPending |-> pf.hasPending, pending |-> pf.pending] :
        b \in BOOLEAN, o \in {"", OrderId}, pf \in PendingFields}

SampleFlow ==
    [obj |-> TRUE, id |-> FlowId, buObj |-> TRUE, order |-> OrderId,
     hasPending |-> TRUE, pending |-> <<"r1">>]

Envelope(t, res, assoc, ord, flow) ==
    [type |-> t, resource |-> res, associate |-> assoc, order |-> ord,
     approvalFlow |-> flow]

EmptyEnvelope == Envelope("", NoObj, NoObj, NoObj, NoFlow)

\* The five types the router has a case for.
RecognisedTypes ==
    {"ResourceCreated", "ApprovalFlowCreated", "ApprovalFlowApproved",
     "ApprovalFlowRejected", "ApprovalFlowCompleted"}

\* The envelopes fed to the adapter; type "" is an envelope without `type`.
\* Fields a branch of the router never
\* reads are left out for that type, except for ResourceCreated, which is
\* given every combination of the other fields.
Envelopes ==
    {Envelope("ResourceCreated", res, assoc, ord, flow) :
        res \in Objs(FlowId), assoc \in Objs("cust1"), ord \in Objs(OrderId),
        flow \in {NoFlow, SampleFlow}}
    \cup {Envelope("ApprovalFlowCreated", NoObj, NoObj, NoObj, flow) :
        flow \in Flows \cup {NoFlow}}
    \cup {Envelope("ApprovalFlowApproved", res, assoc, ord, NoFlow) :
        res \in Objs(FlowId), assoc \in Objs("cust1"), ord \in Objs(OrderId)}
    \cup {Envelope(t, res, NoObj, ord, NoFlow) :
        t \in {"ApprovalFlowRejected", "ApprovalFlowCompleted"},
        res \in Objs(FlowId), ord \in Objs(OrderId)}
    \cup {Envelope(t, NoObj, NoObj, NoObj, NoFlow) :
        t \in {"SomethingElse", "resourcecreated", ""}}

(***************************************************************************)
(* message.data: a base64 string, modelled as a sequence of units.  A unit *)
(* decodes to one piece of text: whitespace ("sp"), text that is no JSON   *)
(* ("x"), the JSON literal null ("null"), a whole JSON document ("json"),  *)
(* or nothing at all ("inv": a character outside the base64 alphabet,      *)
(* which Buffer.from skips).                                               *)
(***************************************************************************)
Unit(c) == [c |-> c, doc |-> EmptyEnvelope]
Json(e) == [c |-> "json", doc |-> e]

SampleEnvelopes ==
    {Envelope("ApprovalFlowCompleted", Obj(FlowId), NoObj, Obj(OrderId), NoFlow)}

DataTexts ==
    SeqsUpTo({Unit("sp"), Unit("x"), Unit("null"), Unit("inv")}
             \cup {Json(e) : e \in SampleEnvelopes}, MaxDataLen)
    \cup {<<Json(e)>> : e \in Envelopes}

\* The inbound requests: body absent, message absent, data absent, or data
\* one of DataTexts.
Requests ==
    {[body |-> FALSE, message |-> FALSE, hasData |-> FALSE, data |-> <<>>],
     [body |-> TRUE, message |-> FALSE, hasData |-> FALSE, data |-> <<>>],
     [body |-> TRUE, message |-> TRUE, hasData |-> FALSE, data |-> <<>>]}
    \cup {[body |-> TRUE, message |-> TRUE, hasData |-> TRUE, data |-> d] :
            d \in DataTexts}

NoRequest == [body |-> FALSE, message |-> FALSE, hasData |-> FALSE, data |-> <<Unit("none")>>]

(***************************************************************************)
(* Errors.                                                                 *)
(***************************************************************************)
NoErr == [kind |-> "none", status |-> 0, arg |-> ""]
CustomError(statusCode, arg) == [kind |-> "CustomError", status |-> statusCode, arg |-> arg]
\* A fault of the runtime (property read on undefined): no CustomError.
TypeError == [kind |-> "TypeError", status |-> 0, arg |-> ""]

(***************************************************************************)
(* Decoding (event.controller.ts).                                         *)
(***************************************************************************)
validatePubSubMessage(req) ==
    IF ~req.body
      THEN [ok |-> FALSE, err |-> CustomError(400, ""), message |-> NoRequest]
    ELSE IF ~req.message
      THEN [ok |-> FALSE, err |-> CustomError(400, ""), message |-> NoRequest]
    ELSE [ok |-> TRUE, err |-> NoErr, message |-> req]

\* Buffer.from(data, 'base64').toString(): units outside the alphabet are
\* skipped, every other unit yields its text.
Base64Decode(data) == SelectSeq(data, LAMBDA u : u.c # "inv")

RECURSIVE TrimStart(_)
TrimStart(text) ==
    IF text # <<>> /\ Head(text).c = "sp" THEN TrimStart(Tail(text)) ELSE text

RECURSIVE TrimEnd(_)
TrimEnd(text) ==
    IF text # <<>> /\ text[Len(text)].c = "sp"
      THEN TrimEnd(SubSeq(text, 1, Len(text) - 1))
      ELSE text

Trim(text) == TrimEnd(TrimStart(text))

\* Mutant: the first JSON document found in the text is taken, whatever
\* surrounds it.
JsonParse_Lenient(text) ==
    IF \E i \in DOMAIN text : text[i].c = "json"
      THEN [ok |-> TRUE,
            jsonData |-> SelectSeq(text, LAMBDA u : u.c = "json")[1].doc]
      ELSE [ok |-> FALSE, jsonData |-> EmptyEnvelope]

\* JSON.parse followed by the property reads of the success log: only a
\* text that is exactly one JSON document gets through (the literal null
\* parses, but reading a property of it faults inside the try).
JsonParse(text) ==
    IF Len(text) = 1 /\ text[1].c = "json"
      THEN [ok |-> TRUE, jsonData |-> text[1].doc]
      ELSE [ok |-> FALSE, jsonData |-> EmptyEnvelope]

decodePubSubMessage(pubSubMessage) ==
    LET decodedData ==
            IF pubSubMessage.hasData /\ pubSubMessage.data # <<>>
              THEN Trim(Base64Decode(pubSubMessage.data))
              ELSE <<>>
        parsed == JsonParse(decodedData)
    IN  IF decodedData = <<>>
          THEN [ok |-> FALSE, err |-> CustomError(400, ""), jsonData |-> EmptyEnvelope]
        ELSE IF ~parsed.ok
          THEN [ok |-> FALSE, err |-> CustomError(400, ""), jsonData |-> EmptyEnvelope]
        ELSE [ok |-> TRUE, err |-> NoErr, jsonData |-> parsed.jsonData]

(***************************************************************************)
(* Outcome of one stretch of code: where the invocation is suspended next  *)
(* (or that it returned or threw), the functions it entered, the remote    *)
(* calls it issued, its locals and the send promises it created.           *)
(***************************************************************************)
NoLoc ==
    [handler |-> "", inTransition |-> FALSE, approvalFlowId |-> "",
     associateId |-> "", orderId |-> "", stateKey |-> "",
     businessUnitKey |-> "", approvalFlowFetched |-> FALSE,
     currentTierPendingApprovers |-> <<>>, roleKeys |-> <<>>,
     customerRefs |-> <<>>, customers |-> <<>>, version |-> 0,
     stateResponse |-> ""]

Call(op, key, ver, ids) == [op |-> op, key |-> key, ver |-> ver, ids |-> ids]

Await(at, issued, L) ==
    [pc |-> at, err |-> NoErr, invoked |-> <<>>, calls |-> issued, loc |-> L,
     sends |-> <<>>]

Returned(L) ==
    [pc |-> "returned", err |-> NoErr, invoked |-> <<>>, calls |-> <<>>,
     loc |-> L, sends |-> <<>>]

Thrown(error, L) ==
    [pc |-> "thrown", err |-> error, invoked |-> <<>>, calls |-> <<>>,
     loc |-> L, sends |-> <<>>]

Entered(fn, key, out) ==
    [out EXCEPT !.invoked = <<[fn |-> fn, key |-> key]>> \o @]

(***************************************************************************)
(* approval.utils.ts, each function up to its first await.                 *)
(***************************************************************************)
fetchOrder(orderId, L) ==
    Entered("fetchOrder", orderId,
            Await("awaitOrder", <<Call("orders.get", orderId, 0, <<>>)>>, L))

fetchApprovalFlow(approvalFlowId, associateId, businessUnitKey, L) ==
    Entered("fetchApprovalFlow", approvalFlowId,
            Await("awaitFlow",
                  <<Call("approvalFlows.get", approvalFlowId, 0, <<>>)>>, L))

transitionOrderState(orderId, stateKey, L) ==
    Entered("transitionOrderState", stateKey,
            fetchOrder(orderId, [L EXCEPT !.inTransition = TRUE,
                                          !.orderId = orderId,
                                          !.stateKey = stateKey]))

\* sendBulkEmails: recipients.map(sendEmail) issues every send, then
\* Promise.all waits for them.
sendBulkEmails(recipients, L) ==
    Entered("sendBulkEmails", "",
        [pc |-> "awaitEmails", err |-> NoErr, invoked |-> <<>>,
         calls |-> [i \in 1..Len(recipients) |->
                        Call("mail.send", recipients[i].email, 0, <<>>)],
         loc |-> L,
         sends |-> [i \in 1..Len(recipients) |-> "pending"]])

\* Mutant: step 3 is run whatever the handler.
resumeAfterNotifications_AnyHandler(L) ==
    IF L.orderId # ""
      THEN transitionOrderState(L.orderId, config.orderNeedApprovalStateKey, L)
      ELSE Returned(L)

\* The rest of a handler once `await sendApprovalNotifications(...)` is over:
\* step 3 of handleApprovalFlowCreated, the end of handleApprovalFlowApproved.
resumeAfterNotifications(L) ==
    IF L.handler = "handleApprovalFlowCreated" /\ L.orderId # ""
      THEN transitionOrderState(L.orderId, config.orderNeedApprovalStateKey, L)
      ELSE Returned(L)

\* Mutant: no filter on the email address.
sendApprovalNotifications_NoFilter(customers, L) ==
    Entered("sendApprovalNotifications", L.approvalFlowId,
        IF customers = <<>>
          THEN resumeAfterNotifications([L EXCEPT !.customers = customers])
          ELSE sendBulkEmails(customers, [L EXCEPT !.customers = customers]))

\* `customers` is what fetchCustomersByAssociateRoleKeysInBusinessUnit
\* returned to the handler.
sendApprovalNotifications(customers, L) ==
    LET recipients == SelectSeq(customers, LAMBDA customer : customer.email # "")
        L2 == [L EXCEPT !.customers = customers]
    IN  Entered("sendApprovalNotifications", L.approvalFlowId,
            IF recipients = <<>>
              THEN resumeAfterNotifications(L2)
              ELSE sendBulkEmails(recipients, L2))

\* Mutant: the customers are fetched one by one, a query per reference.
collectedCustomers_OneByOne(L) ==
    IF L.customerRefs = <<>>
      THEN sendApprovalNotifications(<<>>, L)
      ELSE Await("awaitCustomers",
                 [i \in 1..Len(L.customerRefs) |->
                     Call("customers.query", "", 0, <<L.customerRefs[i]>>)], L)

\* fetchCustomersByAssociateRoleKeysInBusinessUnit after its for loop.
collectedCustomers(L) ==
    IF L.customerRefs = <<>>
      THEN sendApprovalNotifications(<<>>, L)
      ELSE Await("awaitCustomers",
                 <<Call("customers.query", "", 0, L.customerRefs)>>, L)

\* One turn of the for loop over the role keys still to resolve.
nextRoleKey(L) ==
    IF L.roleKeys = <<>>
      THEN collectedCustomers(L)
      ELSE Await("awaitRole",
                 <<Call("associateRoles.get", Head(L.roleKeys), 0, <<>>)>>, L)

fetchCustomersByAssociateRoleKeysInBusinessUnit(associateRoleKeys, businessUnitKey, L) ==
    Entered("fetchCustomersByAssociateRoleKeysInBusinessUnit", businessUnitKey,
            nextRoleKey([L EXCEPT !.roleKeys = associateRoleKeys,
                                  !.businessUnitKey = businessUnitKey,
                                  !.customerRefs = <<>>]))

\* Mutant: no early return on an empty list of pending approvers.
handleApprovalFlowCreated_NoEarlyReturn(approvalFlow) ==
    LET currentTierPendingApprovers ==
            IF approvalFlow.hasPending THEN approvalFlow.pending ELSE <<>>
        L == [NoLoc EXCEPT !.handler = "handleApprovalFlowCreated",
                           !.approvalFlowId = approvalFlow.id,
                           !.orderId = approvalFlow.order,
                           !.currentTierPendingApprovers =
                               currentTierPendingApprovers]
    IN  Entered("handleApprovalFlowCreated", approvalFlow.id,
            IF ~approvalFlow.buObj
              THEN Thrown(TypeError, L)
              ELSE fetchCustomersByAssociateRoleKeysInBusinessUnit(
                       currentTierPendingApprovers, BusinessUnitKey, L))

handleApprovalFlowCreated(approvalFlow) ==
    LET currentTierPendingApprovers ==
            IF approvalFlow.hasPending THEN approvalFlow.pending ELSE <<>>
        L == [NoLoc EXCEPT !.handler = "handleApprovalFlowCreated",
                           !.approvalFlowId = approvalFlow.id,
                           !.orderId = approvalFlow.order,
                           !.currentTierPendingApprovers =
                               currentTierPendingApprovers]
    IN  Entered("handleApprovalFlowCreated", approvalFlow.id,
            IF currentTierPendingApprovers = <<>>
              THEN Returned(L)
            ELSE IF ~approvalFlow.buObj
              THEN Thrown(TypeError, L)
            ELSE fetchCustomersByAssociateRoleKeysInBusinessUnit(
                     currentTierPendingApprovers, BusinessUnitKey, L))

\* Mutant: `>= 0` for `> 0`.
resumeAfterApprovalFlow_NoGuard(approvalFlow, L) ==
    LET currentTierPendingApprovers ==
            IF approvalFlow.hasPending THEN approvalFlow.pending ELSE <<>>
        L2 == [L EXCEPT !.approvalFlowFetched = TRUE,
                        !.currentTierPendingApprovers =
                            currentTierPendingApprovers]
    IN  fetchCustomersByAssociateRoleKeysInBusinessUnit(
            currentTierPendingApprovers, BusinessUnitKey, L2)

\* handleApprovalFlowApproved once the approval flow is fetched.
resumeAfterApprovalFlow(approvalFlow, L) ==
    LET currentTierPendingApprovers ==
            IF approvalFlow.hasPending THEN approvalFlow.pending ELSE <<>>
        L2 == [L EXCEPT !.approvalFlowFetched = TRUE,
                        !.currentTierPendingApprovers =
                            currentTierPendingApprovers]
    IN  IF Len(currentTierPendingApprovers) > 0
          THEN fetchCustomersByAssociateRoleKeysInBusinessUnit(
                   currentTierPendingApprovers, BusinessUnitKey, L2)
          ELSE Returned(L2)

handleApprovalFlowApproved(approvalFlowId, associateId, orderId) ==
    Entered("handleApprovalFlowApproved", approvalFlowId,
            fetchOrder(orderId,
                       [NoLoc EXCEPT !.handler = "handleApprovalFlowApproved",
                                     !.approvalFlowId = approvalFlowId,
                                     !.associateId = associateId,
                                     !.orderId = orderId]))

\* Mutant: the two state keys are swapped.
handleApprovalFlowRejectedOrCompleted_Swapped(approvalFlowId, isRejected, orderId) ==
    LET L == [NoLoc EXCEPT !.handler = "handleApprovalFlowRejectedOrCompleted",
                           !.approvalFlowId = approvalFlowId,
                           !.orderId = orderId]
        stateKey == IF isRejected
                      THEN config.orderApprovedStateKey
                      ELSE config.orderRejectedStateKey
    IN  Entered("handleApprovalFlowRejectedOrCompleted", approvalFlowId,
            IF orderId # ""
              THEN transitionOrderState(orderId, stateKey, L)
              ELSE Returned(L))

handleApprovalFlowRejectedOrCompleted(approvalFlowId, isRejected, orderId) ==
    LET L == [NoLoc EXCEPT !.handler = "handleApprovalFlowRejectedOrCompleted",
                           !.approvalFlowId = approvalFlowId,
                           !.orderId = orderId]
        stateKey == IF isRejected
                      THEN config.orderRejectedStateKey
                      ELSE config.orderApprovedStateKey
    IN  Entered("handleApprovalFlowRejectedOrCompleted", approvalFlowId,
            IF orderId # ""
              THEN transitionOrderState(orderId, stateKey, L)
              ELSE Returned(L))

(***************************************************************************)
(* event.controller.ts: the router and post, up to the first await.        *)
(***************************************************************************)
\* Mutant: no check that the envelope has an approvalFlow.
routeApprovalFlowCreated_NoCheck(jsonData) ==
    handleApprovalFlowCreated(jsonData.approvalFlow)

routeApprovalFlowCreated(jsonData) ==
    IF ~jsonData.approvalFlow.obj
      THEN Thrown(CustomError(400, ""), NoLoc)
      ELSE handleApprovalFlowCreated(jsonData.approvalFlow)

\* Mutant: the case has no throw and falls through to the next one.
routeResourceCreated_FallThrough(jsonData) == routeApprovalFlowCreated(jsonData)

routeResourceCreated(jsonData) == Thrown(CustomError(202, ""), NoLoc)

\* The arguments of the call are evaluated first: reading `.id` of an
\* absent `associate` or `order` object faults.
routeApprovalFlowApproved(jsonData) ==
    IF jsonData.resource.id = ""
      THEN Thrown(CustomError(400, ""), NoLoc)
    ELSE IF ~jsonData.associate.obj \/ ~jsonData.order.obj
      THEN Thrown(TypeError, NoLoc)
    ELSE handleApprovalFlowApproved(
             jsonData.resource.id, jsonData.associate.id, jsonData.order.id)

routeApprovalFlowRejectedOrCompleted(jsonData, isRejected) ==
    IF jsonData.resource.id = ""
      THEN Thrown(CustomError(400, ""), NoLoc)
    ELSE IF ~jsonData.order.obj
      THEN Thrown(TypeError, NoLoc)
    ELSE handleApprovalFlowRejectedOrCompleted(
             jsonData.resource.id, isRejected, jsonData.order.id)

\* `${type}` in a template literal: the text of the value, "undefined" for
\* an absent one.
TemplateText(type) == IF type = "" THEN "undefined" ELSE type

\* Mutant: a type without a case is ignored.
routeUnsupported_Ignored(jsonData) == Returned(NoLoc)

routeUnsupported(jsonData) ==
    Thrown(CustomError(400, TemplateText(jsonData.type)), NoLoc)

routeApprovalFlowMessage(jsonData) ==
    Entered("routeApprovalFlowMessage", jsonData.type,
        CASE jsonData.type = "ResourceCreated" -> routeResourceCreated(jsonData)
          [] jsonData.type = "ApprovalFlowCreated" -> routeApprovalFlowCreated(jsonData)
          [] jsonData.type = "ApprovalFlowApproved" -> routeApprovalFlowApproved(jsonData)
          [] jsonData.type = "ApprovalFlowRejected" ->
               routeApprovalFlowRejectedOrCompleted(jsonData, TRUE)
          [] jsonData.type = "ApprovalFlowCompleted" ->
               routeApprovalFlowRejectedOrCompleted(jsonData, FALSE)
          [] OTHER -> routeUnsupported(jsonData))

post(req) ==
    LET validated == validatePubSubMessage(req)
        decoded == decodePubSubMessage(validated.message)
    IN  IF ~validated.ok THEN Thrown(validated.err, NoLoc)
        ELSE IF ~decoded.ok THEN Thrown(decoded.err, NoLoc)
        ELSE routeApprovalFlowMessage(decoded.jsonData)

(***************************************************************************)
(* The catch blocks: what each function throws when a call it awaits fails.*)
(***************************************************************************)
\* A rejected SDK or SendGrid call: an error of the client library.
RemoteError(code) == [kind |-> "RemoteError", status |-> code, arg |-> ""]

\* Mutant: the catch block of transitionOrderState rethrows what it caught.
transitionOrderStateCatch_Rethrow(error) == error

fetchApprovalFlowCatch(error) == CustomError(400, "")
fetchCustomersCatch(error) == CustomError(400, "")
fetchOrderCatch(error) == CustomError(400, "")
transitionOrderStateCatch(error) == CustomError(400, "")
sendEmailCatch(error) == CustomError(500, "")
sendBulkEmailsCatch(error) == CustomError(500, "")
sendApprovalNotificationsCatch(error) == CustomError(500, "")

(***************************************************************************)
(* The platform's answers.                                                 *)
(***************************************************************************)
\* businessUnit.associates filtered on the role key, mapped to customers.
roleCustomers(roleKey) ==
    LET assocciates == SelectSeq(Associates, LAMBDA a : roleKey \in a.roles)
    IN  [i \in 1..Len(assocciates) |-> assocciates[i].customer]

\* customers().get({where: id in (...)}): the records whose id is listed.
customerQuery(ids) ==
    SelectSeq(CustomerRecords, LAMBDA c : c.id \in Range(ids))

(***************************************************************************)
(* State.                                                                  *)
(***************************************************************************)
\* No connector script has run; the platform holds the subscriptions `subs`.
ScriptInit(subs) ==
    /\ subscriptions = subs
    /\ scriptPc = "idle"
    /\ scriptRun = ""
    /\ scriptLoc = <<>>
    /\ scriptCalls = <<>>
    /\ history = <<>>

EventInit ==
    /\ pc = [r \in Reqs |-> "idle"]
    /\ request = [r \in Reqs |-> NoRequest]
    /\ err = [r \in Reqs |-> NoErr]
    /\ status = [r \in Reqs |-> 0]
    /\ invoked = [r \in Reqs |-> <<>>]
    /\ calls = [r \in Reqs |-> <<>>]
    /\ loc = [r \in Reqs |-> NoLoc]
    /\ sends = [r \in Reqs |-> <<>>]
    /\ \E bu \in {"", BusinessUnitKey} :
           order = [version |-> 1, state |-> "open", businessUnit |-> bu]

\* The event service at work: the subscription is not its concern.
Init == EventInit /\ ScriptInit(<<>>)

\* Invocation r goes on as `out` says.
Resume(r, out) ==
    /\ pc' = [pc EXCEPT ![r] = out.pc]
    /\ err' = [err EXCEPT ![r] = out.err]
    /\ invoked' = [invoked EXCEPT ![r] = @ \o out.invoked]
    /\ calls' = [calls EXCEPT ![r] = @ \o out.calls]
    /\ loc' = [loc EXCEPT ![r] = out.loc]

Continue(r, out) ==
    /\ Resume(r, out)
    /\ sends' = [sends EXCEPT ![r] = @ \o out.sends]

(***************************************************************************)
(* Actions.                                                                *)
(***************************************************************************)
\* A request arrives and post runs up to its first await.  Invocations are
\* taken one at a time here.
Receive(r) ==
    /\ \A o \in Reqs : pc[o] = "idle"
    /\ \E req \in Requests :
        /\ request' = [request EXCEPT ![r] = req]
        /\ Continue(r, post(req))
    /\ UNCHANGED <<status, order>>

\* associateRoles().withKey().get() answers.
AssociateRoleResponds(r) ==
    /\ pc[r] = "awaitRole"
    /\ \E ok \in BOOLEAN :
        Continue(r,
            IF ok
              THEN Await("awaitBusinessUnit",
                         <<Call("businessUnits.get", loc[r].businessUnitKey, 0, <<>>)>>,
                         loc[r])
              ELSE Thrown(fetchCustomersCatch(RemoteError(404)), loc[r]))
    /\ UNCHANGED <<request, status, order>>

\* businessUnits().withKey().get() answers; the loop goes to its next turn.
BusinessUnitResponds(r) ==
    /\ pc[r] = "awaitBusinessUnit"
    /\ \E ok \in BOOLEAN :
        Continue(r,
            IF ok
              THEN nextRoleKey([loc[r] EXCEPT
                       !.customerRefs = @ \o roleCustomers(Head(loc[r].roleKeys)),
                       !.roleKeys = Tail(@)])
              ELSE Thrown(fetchCustomersCatch(RemoteError(404)), loc[r]))
    /\ UNCHANGED <<request, status, order>>

\* The customer query answers; the handler goes on to the notifications.
CustomersRespond(r) ==
    /\ pc[r] = "awaitCustomers"
    /\ \E ok \in BOOLEAN :
        Continue(r,
            IF ok
              THEN sendApprovalNotifications(customerQuery(loc[r].customerRefs), loc[r])
              ELSE Thrown(fetchCustomersCatch(RemoteError(400)), loc[r]))
    /\ UNCHANGED <<request, status, order>>

\* Mutant: Promise.allSettled for Promise.all: the handler goes on once
\* every send has settled, failed or not.
EmailSettles_AllSettled(r) ==
    \E i \in DOMAIN sends[r], ok \in BOOLEAN :
        /\ sends[r][i] = "pending"
        /\ sends' = [sends EXCEPT ![r][i] = IF ok THEN "sent" ELSE "failed"]
        /\ IF pc[r] # "awaitEmails"
             THEN UNCHANGED <<pc, err, invoked, calls, loc>>
           ELSE IF \A j \in DOMAIN sends[r] : j # i => sends[r][j] # "pending"
             THEN Resume(r, resumeAfterNotifications(loc[r]))
           ELSE UNCHANGED <<pc, err, invoked, calls, loc>>
        /\ UNCHANGED <<request, status, order>>

\* Mutant: Promise.any for Promise.all: the handler goes on with the first
\* send that is fulfilled.
EmailSettles_FirstFulfilled(r) ==
    \E i \in DOMAIN sends[r], ok \in BOOLEAN :
        /\ sends[r][i] = "pending"
        /\ sends' = [sends EXCEPT ![r][i] = IF ok THEN "sent" ELSE "failed"]
        /\ IF pc[r] # "awaitEmails"
             THEN UNCHANGED <<pc, err, invoked, calls, loc>>
           ELSE IF ok
             THEN Resume(r, resumeAfterNotifications(loc[r]))
           ELSE IF \A j \in DOMAIN sends[r] : j # i => sends[r][j] = "failed"
             THEN Resume(r, Thrown(sendApprovalNotificationsCatch(
                                     sendBulkEmailsCatch(
                                       sendEmailCatch(RemoteError(500)))), loc[r]))
           ELSE UNCHANGED <<pc, err, invoked, calls, loc>>
        /\ UNCHANGED <<request, status, order>>

\* One sgMail.send settles.  While Promise.all is awaited, the first
\* rejection throws, and the last fulfilment lets the handler go on; a send
\* that settles after the handler has thrown changes nothing but itself.
EmailSettles(r) ==
    \E i \in DOMAIN sends[r], ok \in BOOLEAN :
        /\ sends[r][i] = "pending"
        /\ sends' = [sends EXCEPT ![r][i] = IF ok THEN "sent" ELSE "failed"]
        /\ IF pc[r] # "awaitEmails"
             THEN UNCHANGED <<pc, err, invoked, calls, loc>>
           ELSE IF ~ok
             THEN Resume(r, Thrown(sendApprovalNotificationsCatch(
                                     sendBulkEmailsCatch(
                                       sendEmailCatch(RemoteError(500)))), loc[r]))
           ELSE IF \A j \in DOMAIN sends[r] : j # i => sends[r][j] = "sent"
             THEN Resume(r, resumeAfterNotifications(loc[r]))
           ELSE UNCHANGED <<pc, err, invoked, calls, loc>>
        /\ UNCHANGED <<request, status, order>>

\* Mutant: handleApprovalFlowApproved goes on without a business unit key.
OrderResponds_NoBusinessUnitCheck(r) ==
    /\ pc[r] = "awaitOrder"
    /\ \E ok \in BOOLEAN :
        LET L == loc[r]
            found == ok /\ L.orderId = OrderId
        IN  Continue(r,
              IF L.inTransition
                THEN IF found
                       THEN Await("awaitStates",
                                  <<Call("states.query", L.stateKey, 0, <<>>)>>,
                                  [L EXCEPT !.version = order.version])
                       ELSE Thrown(transitionOrderStateCatch(
                                     fetchOrderCatch(RemoteError(404))), L)
              ELSE IF ~found
                THEN Thrown(fetchOrderCatch(RemoteError(404)), L)
              ELSE fetchApprovalFlow(L.approvalFlowId, L.associateId,
                                     order.businessUnit, L))
    /\ UNCHANGED <<request, status, order>>

\* orders().withId().get() answers: to handleApprovalFlowApproved, or to
\* transitionOrderState.
OrderResponds(r) ==
    /\ pc[r] = "awaitOrder"
    /\ \E ok \in BOOLEAN :
        LET L == loc[r]
            found == ok /\ L.orderId = OrderId
        IN  Continue(r,
              IF L.inTransition
                THEN IF found
                       THEN Await("awaitStates",
                                  <<Call("states.query", L.stateKey, 0, <<>>)>>,
                                  [L EXCEPT !.version = order.version])
                       ELSE Thrown(transitionOrderStateCatch(
                                     fetchOrderCatch(RemoteError(404))), L)
              ELSE IF ~found
                THEN Thrown(fetchOrderCatch(RemoteError(404)), L)
              ELSE IF order.businessUnit = ""
                THEN Returned(L)
              ELSE fetchApprovalFlow(L.approvalFlowId, L.associateId,
                                     order.businessUnit, L))
    /\ UNCHANGED <<request, status, order>>

\* The approval flow is fetched: whatever pending approvers it has now.
ApprovalFlowResponds(r) ==
    /\ pc[r] = "awaitFlow"
    /\ \E ok \in BOOLEAN, pf \in PendingFields :
        Continue(r,
            IF ok
              THEN resumeAfterApprovalFlow(pf, loc[r])
              ELSE Thrown(fetchApprovalFlowCatch(RemoteError(404)), loc[r]))
    /\ UNCHANGED <<request, status, order>>

\* Mutant: the update carries version 1, not the version that was fetched.
StatesRespond_FirstVersion(r) ==
    /\ pc[r] = "awaitStates"
    /\ \E results \in {"error", "none", "found"} :
        LET L == [loc[r] EXCEPT !.stateResponse =
                                    IF results = "error" THEN @ ELSE results]
        IN  Continue(r,
              IF results = "found"
                THEN Await("awaitUpdate",
                           <<Call("orders.update", L.stateKey, 1, <<>>)>>, L)
              ELSE IF results = "none"
                THEN Thrown(transitionOrderStateCatch(CustomError(400, "")), L)
              ELSE Thrown(transitionOrderStateCatch(RemoteError(400)), L))
    /\ UNCHANGED <<request, status, order>>

\* The state query answers: an error, no match, or the state of that key.
StatesRespond(r) ==
    /\ pc[r] = "awaitStates"
    /\ \E results \in {"error", "none", "found"} :
        LET L == [loc[r] EXCEPT !.stateResponse =
                                    IF results = "error" THEN @ ELSE results]
        IN  Continue(r,
              IF results = "found"
                THEN Await("awaitUpdate",
                           <<Call("orders.update", L.stateKey, L.version, <<>>)>>,
                           L)
              ELSE IF results = "none"
                THEN Thrown(transitionOrderStateCatch(CustomError(400, "")), L)
              ELSE Thrown(transitionOrderStateCatch(RemoteError(400)), L))
    /\ UNCHANGED <<request, status, order>>

\* Mutant: a rejected update is tried again from the order fetch.
OrderUpdateResponds_Retry(r) ==
    /\ pc[r] = "awaitUpdate"
    /\ \E ok \in BOOLEAN :
        LET accepted == /\ ok
                        /\ loc[r].version = order.version
                        /\ order.version < MaxVersion
        IN  /\ Continue(r,
                 IF accepted
                   THEN Returned(loc[r])
                   ELSE fetchOrder(loc[r].orderId, loc[r]))
            /\ order' = IF accepted
                          THEN [order EXCEPT !.version = @ + 1,
                                             !.state = loc[r].stateKey]
                          ELSE order
    /\ UNCHANGED <<request, status>>

\* Mutant: the platform takes an update whatever version it carries.
OrderUpdateResponds_LastWriteWins(r) ==
    /\ pc[r] = "awaitUpdate"
    /\ \E ok \in BOOLEAN :
        LET accepted == ok /\ order.version < MaxVersion
        IN  /\ Continue(r,
                 IF accepted
                   THEN Returned(loc[r])
                   ELSE Thrown(transitionOrderStateCatch(RemoteError(409)), loc[r]))
            /\ order' = IF accepted
                          THEN [order EXCEPT !.version = @ + 1,
                                             !.state = loc[r].stateKey]
                          ELSE order
    /\ UNCHANGED <<request, status>>

\* Mutant: an order in the approved or the rejected state keeps its state,
\* the update giving it a new version only.
OrderUpdateResponds_TerminalStateKept(r) ==
    /\ pc[r] = "awaitUpdate"
    /\ \E ok \in BOOLEAN :
        LET accepted == /\ ok
                        /\ loc[r].version = order.version
                        /\ order.version < MaxVersion
            terminal == order.state \in {config.orderApprovedStateKey,
                                         config.orderRejectedStateKey}
        IN  /\ Continue(r,
                 IF accepted
                   THEN Returned(loc[r])
                   ELSE Thrown(transitionOrderStateCatch(RemoteError(409)), loc[r]))
            /\ order' = IF accepted
                          THEN [order EXCEPT !.version = @ + 1,
                                             !.state = IF terminal THEN @
                                                       ELSE loc[r].stateKey]
                          ELSE order
    /\ UNCHANGED <<request, status>>

\* The platform takes the update when it carries the order's current
\* version, and rejects it otherwise (or the call fails).
OrderUpdateResponds(r) ==
    /\ pc[r] = "awaitUpdate"
    /\ \E ok \in BOOLEAN :
        LET accepted == /\ ok
                        /\ loc[r].version = order.version
                        /\ order.version < MaxVersion
        IN  /\ Continue(r,
                 IF accepted
                   THEN Returned(loc[r])
                   ELSE Thrown(transitionOrderStateCatch(RemoteError(409)), loc[r]))
            /\ order' = IF accepted
                          THEN [order EXCEPT !.version = @ + 1,
                                             !.state = loc[r].stateKey]
                          ELSE order
    /\ UNCHANGED <<request, status>>

\* The router and the handler returned: post answers 204.
RespondNoContent(r) ==
    /\ pc[r] = "returned"
    /\ pc' = [pc EXCEPT ![r] = "responded"]
    /\ status' = [status EXCEPT ![r] = 204]
    /\ UNCHANGED <<request, err, invoked, calls, loc, sends, order>>

\* The route hands an error thrown by post to the error middleware.
eventRouterNext(r) == pc[r] = "thrown"

\* Mutant: the middleware answers with the status the error carries.
errorMiddleware_EchoStatus(r) ==
    /\ eventRouterNext(r)
    /\ pc' = [pc EXCEPT ![r] = "responded"]
    /\ status' = [status EXCEPT ![r] =
                     IF err[r].kind = "CustomError" THEN err[r].status ELSE 500]
    /\ UNCHANGED <<request, err, invoked, calls, loc, sends, order>>

errorMiddleware(r) ==
    /\ eventRouterNext(r)
    /\ pc' = [pc EXCEPT ![r] = "responded"]
    /\ status' = [status EXCEPT ![r] = 200]
    /\ UNCHANGED <<request, err, invoked, calls, loc, sends, order>>

\* The invocation is over and everything it held is dropped.
Complete(r) ==
    /\ pc[r] = "responded"
    /\ \A i \in DOMAIN sends[r] : sends[r][i] # "pending"
    /\ pc' = [pc EXCEPT ![r] = "idle"]
    /\ request' = [request EXCEPT ![r] = NoRequest]
    /\ err' = [err EXCEPT ![r] = NoErr]
    /\ status' = [status EXCEPT ![r] = 0]
    /\ invoked' = [invoked EXCEPT ![r] = <<>>]
    /\ calls' = [calls EXCEPT ![r] = <<>>]
    /\ loc' = [loc EXCEPT ![r] = NoLoc]
    /\ sends' = [sends EXCEPT ![r] = <<>>]
    /\ UNCHANGED order

EventNext(r) ==
        \/ Receive(r)
        \/ AssociateRoleResponds(r)
        \/ BusinessUnitResponds(r)
        \/ CustomersRespond(r)
        \/ EmailSettles(r)
        \/ OrderResponds(r)
        \/ ApprovalFlowResponds(r)
        \/ StatesRespond(r)
        \/ OrderUpdateResponds(r)
        \/ RespondNoContent(r)
        \/ errorMiddleware(r)
        \/ Complete(r)

Next == (\E r \in Reqs : EventNext(r)) /\ UNCHANGED scriptVars

Spec == Init /\ [][Next]_vars

(***************************************************************************)
(* The event service under concurrent deliveries: a request is taken       *)
(* whenever a slot is free, while another invocation may be in flight.     *)
(* The requests are notifications about the one order.                     *)
(***************************************************************************)
RaceEnvelopes ==
    {Envelope("ApprovalFlowRejected", Obj(FlowId), NoObj, Obj(OrderId), NoFlow),
     Envelope("ApprovalFlowCompleted", Obj(FlowId), NoObj, Obj(OrderId), NoFlow),
     Envelope("ApprovalFlowCreated", NoObj, NoObj, NoObj, SampleFlow)}

RaceRequests ==
    {[body |-> TRUE, message |-> TRUE, hasData |-> TRUE, data |-> <<Json(e)>>] :
        e \in RaceEnvelopes}

ReceiveConcurrent(r) ==
    /\ pc[r] = "idle"
    /\ \E req \in RaceRequests :
        /\ request' = [request EXCEPT ![r] = req]
        /\ Continue(r, post(req))
    /\ UNCHANGED <<status, order>>

RaceNext(r) ==
        \/ ReceiveConcurrent(r)
        \/ AssociateRoleResponds(r)
        \/ BusinessUnitResponds(r)
        \/ CustomersRespond(r)
        \/ EmailSettles(r)
        \/ OrderResponds(r)
        \/ StatesRespond(r)
        \/ OrderUpdateResponds(r)
        \/ RespondNoContent(r)
        \/ errorMiddleware(r)
        \/ Complete(r)

NextRace == (\E r \in Reqs : RaceNext(r)) /\ UNCHANGED scriptVars

SpecRace == Init /\ [][NextRace]_vars

(***************************************************************************)
(* The event service taking deliveries in turn: a request is taken once    *)
(* the invocation before it has answered, and what that one did is still   *)
(* on record next to what the new one does.                                *)
(***************************************************************************)
\* Mutant: a request equal to the one answered before is acknowledged
\* without being handled.
ReceiveInTurn_Dedup(r) ==
    /\ pc[r] = "idle"
    /\ \A o \in Reqs \ {r} : pc[o] \in {"idle", "responded"}
    /\ \E req \in RaceRequests :
        /\ request' = [request EXCEPT ![r] = req]
        /\ Continue(r, IF \E o \in Reqs \ {r} : request[o] = req
                         THEN Returned(NoLoc)
                         ELSE post(req))
    /\ UNCHANGED <<status, order>>

ReceiveInTurn(r) ==
    /\ pc[r] = "idle"
    /\ \A o \in Reqs \ {r} : pc[o] \in {"idle", "responded"}
    /\ \E req \in RaceRequests :
        /\ request' = [request EXCEPT ![r] = req]
        /\ Continue(r, post(req))
    /\ UNCHANGED <<status, order>>

SeqNext(r) ==
        \/ ReceiveInTurn(r)
        \/ AssociateRoleResponds(r)
        \/ BusinessUnitResponds(r)
        \/ CustomersRespond(r)
        \/ EmailSettles(r)
        \/ OrderResponds(r)
        \/ StatesRespond(r)
        \/ OrderUpdateResponds(r)
        \/ RespondNoContent(r)
        \/ errorMiddleware(r)
        \/ Complete(r)

NextSeq == (\E r \in Reqs : SeqNext(r)) /\ UNCHANGED scriptVars

SpecSeq == Init /\ [][NextSeq]_vars

(***************************************************************************)
(* connector/actions.ts: the subscription manager.  A run is one call of   *)
(* createSubscription or of deleteApprovalFlowNotificationSubscription;    *)
(* runs follow one another.  The platform keeps keys unique, takes a       *)
(* delete that carries the current version and a post when the key is free.*)
(***************************************************************************)
APPROVAL_FLOW_NOTIFICATION_SUBSCRIPTION_KEY == "approval-flow-notification"

Subscription(version) ==
    [key |-> APPROVAL_FLOW_NOTIFICATION_SUBSCRIPTION_KEY, version |-> version]

\* What the platform may hold when the first script runs.
InitialSubscriptions ==
    {<<>>} \cup {<<Subscription(v)>> : v \in 1..MaxSubscriptionVersion}

ScriptRuns == {"createSubscription", "deleteApprovalFlowNotificationSubscription"}

ScriptAwait(at, call) == [pc |-> at, calls |-> <<call>>]
ScriptReturned == [pc |-> "returned", calls |-> <<>>]
ScriptThrown == [pc |-> "thrown", calls |-> <<>>]

\* The function up to its first await: the lookup by key.
deleteApprovalFlowNotificationSubscription ==
    ScriptAwait("awaitLookup",
        Call("subscriptions.get", APPROVAL_FLOW_NOTIFICATION_SUBSCRIPTION_KEY,
             0, <<>>))

\* createSubscription starts by awaiting the delete function.
createSubscription == deleteApprovalFlowNotificationSubscription

\* The delete function has returned: createSubscription posts, a run of
\* the delete function alone is over.
resumeAfterDelete(run) ==
    IF run = "createSubscription"
      THEN ScriptAwait("awaitCreate",
               Call("subscriptions.post",
                    APPROVAL_FLOW_NOTIFICATION_SUBSCRIPTION_KEY, 0, <<>>))
      ELSE ScriptReturned

\* Mutant: the delete carries version 1 whatever the lookup returned.
resumeAfterLookup_FirstVersion(results, run) ==
    IF Len(results) > 0
      THEN ScriptAwait("awaitDelete",
               Call("subscriptions.delete",
                    APPROVAL_FLOW_NOTIFICATION_SUBSCRIPTION_KEY, 1, <<>>))
      ELSE resumeAfterDelete(run)

\* Mutant: what the lookup found is left alone.
resumeAfterLookup_NeverDelete(results, run) == resumeAfterDelete(run)

\* The delete function once the lookup has answered.
resumeAfterLookup(results, run) ==
    IF Len(results) > 0
      THEN ScriptAwait("awaitDelete",
               Call("subscriptions.delete",
                    APPROVAL_FLOW_NOTIFICATION_SUBSCRIPTION_KEY,
                    results[1].version, <<>>))
      ELSE resumeAfterDelete(run)

\* The run goes on as `out` says; a run that is over is put on record with
\* what it leaves on the platform.
ScriptGoesOn(out) ==
    /\ scriptPc' = out.pc
    /\ scriptCalls' = scriptCalls \o out.calls
    /\ history' =
           IF out.pc \in {"returned", "thrown"}
             THEN Append(history, [run |-> scriptRun,
                                   ok |-> out.pc = "returned",
                                   calls |-> scriptCalls',
                                   left |-> subscriptions'])
             ELSE history

\* A connector script is started, once the one before it is over.
ScriptStarts ==
    /\ scriptPc \in {"idle", "returned", "thrown"}
    /\ Len(history) < MaxRuns
    /\ \E run \in ScriptRuns :
        /\ scriptRun' = run
        /\ scriptPc' = "awaitLookup"
        /\ scriptCalls' =
               IF run = "createSubscription"
                 THEN createSubscription.calls
                 ELSE deleteApprovalFlowNotificationSubscription.calls
    /\ scriptLoc' = <<>>
    /\ UNCHANGED <<subscriptions, history>>

\* subscriptions().get({where: key = ...}) answers.
LookupResponds ==
    /\ scriptPc = "awaitLookup"
    /\ UNCHANGED <<subscriptions, scriptRun>>
    /\ \E ok \in BOOLEAN :
        IF ok
          THEN /\ scriptLoc' = subscriptions
               /\ ScriptGoesOn(resumeAfterLookup(subscriptions, scriptRun))
          ELSE /\ scriptLoc' = scriptLoc
               /\ ScriptGoesOn(ScriptThrown)

\* subscriptions().withKey().delete({version}) answers.
DeleteResponds ==
    /\ scriptPc = "awaitDelete"
    /\ \E ok \in BOOLEAN :
        LET accepted ==
                /\ ok
                /\ subscriptions # <<>>
                /\ subscriptions[1].version = scriptCalls[Len(scriptCalls)].ver
        IN  /\ subscriptions' = IF accepted THEN <<>> ELSE subscriptions
            /\ ScriptGoesOn(IF accepted THEN resumeAfterDelete(scriptRun)
                                        ELSE ScriptThrown)
    /\ UNCHANGED <<scriptRun, scriptLoc>>

\* subscriptions().post(...) answers: the new subscription has version 1.
CreateResponds ==
    /\ scriptPc = "awaitCreate"
    /\ \E ok \in BOOLEAN :
        LET accepted == ok /\ subscriptions = <<>>
        IN  /\ subscriptions' = IF accepted THEN <<Subscription(1)>>
                                            ELSE subscriptions
            /\ ScriptGoesOn(IF accepted THEN ScriptReturned ELSE ScriptThrown)
    /\ UNCHANGED <<scriptRun, scriptLoc>>

ScriptNext ==
    \/ ScriptStarts
    \/ LookupResponds
    \/ DeleteResponds
    \/ CreateResponds

InitSub == EventInit /\ \E subs \in InitialSubscriptions : ScriptInit(subs)

NextSub == ScriptNext /\ UNCHANGED eventVars

SpecSub == InitSub /\ [][NextSub]_vars

(***************************************************************************)
(* What a run has done, read off the state.                                *)
(***************************************************************************)
Active == {r \in Reqs : pc[r] # "idle"}

\* The invocation is over: post returned or threw.
Finished(r) == pc[r] \in {"returned", "thrown", "responded"}

ReturnedNormally(r) == pc[r] \in {"returned", "responded"} /\ err[r] = NoErr

CallsOf(r, op) == SelectSeq(calls[r], LAMBDA c : c.op = op)

EnteredOf(r, fn) == SelectSeq(invoked[r], LAMBDA e : e.fn = fn)

Routed(r) == EnteredOf(r, "routeApprovalFlowMessage") # <<>>

\* The text of message.data without base64 noise and whitespace.
Visible(req) == SelectSeq(req.data, LAMBDA u : u.c \notin {"inv", "sp"})

\* The JSON document the request carries, when it is one.
Doc(req) == IF Visible(req) # <<>> THEN Visible(req)[1].doc ELSE EmptyEnvelope

\* No body, no message, no data, nothing left of the data once decoded and
\* trimmed, or a payload that is no JSON text.
MalformedRequest(req) ==
    \/ ~req.body
    \/ ~req.message
    \/ ~req.hasData
    \/ Visible(req) = <<>>
    \/ ~(Len(Visible(req)) = 1 /\ Visible(req)[1].c \in {"json", "null"})

\* C1: a request without body, without message, without data, with data
\* that is empty once decoded and trimmed, or with a payload that is no
\* JSON, makes post fail with a CustomError of status 400 before the router,
\* a handler or a remote call is reached.
C1_MalformedRequestIs400 ==
    \A r \in Active :
        MalformedRequest(request[r]) =>
            /\ pc[r] \in {"thrown", "responded"}
            /\ err[r] = CustomError(400, "")
            /\ invoked[r] = <<>>
            /\ calls[r] = <<>>

C1_Witness ==
    \E r \in Active :
        /\ request[r].hasData
        /\ Len(request[r].data) = 2
        /\ Visible(request[r]) = <<>>
        /\ pc[r] = "thrown"
        /\ err[r] = CustomError(400, "")

\* C2: routing a ResourceCreated envelope throws a CustomError of status
\* 202, enters no handler and issues no remote call, whatever else the
\* envelope carries.
C2_ResourceCreatedSkips ==
    \A r \in Active :
        (Routed(r) /\ Doc(request[r]).type = "ResourceCreated") =>
            /\ pc[r] \in {"thrown", "responded"}
            /\ err[r] = CustomError(202, "")
            /\ invoked[r] = <<[fn |-> "routeApprovalFlowMessage",
                               key |-> "ResourceCreated"]>>
            /\ calls[r] = <<>>
            /\ sends[r] = <<>>

C2_Witness ==
    \E r \in Active :
        /\ Routed(r)
        /\ Doc(request[r]).type = "ResourceCreated"
        /\ Doc(request[r]).approvalFlow.obj
        /\ Doc(request[r]).order.id = OrderId
        /\ err[r].status = 202

\* C3: every request is answered 204 or 200: 204 exactly when nothing
\* threw, 200 (by the error middleware) for every error, the 202 skip and
\* the 400 and 500 errors included; no other status is ever written.
C3_TransportSuccess ==
    \A r \in Reqs :
        /\ status[r] \in {0, 200, 204}
        /\ pc[r] = "responded" <=> status[r] # 0
        /\ status[r] = 204 => err[r] = NoErr
        /\ status[r] = 200 => err[r] # NoErr
        /\ (pc[r] = "thrown" => err[r] # NoErr)
        /\ (pc[r] = "returned" => err[r] = NoErr)

C3_Witness ==
    \E r \in Reqs :
        /\ pc[r] = "responded"
        /\ err[r].status = 202
        /\ status[r] = 200

\* One mail.send call per customer the handler got back that has an email
\* address, to that address, in that order.
OneSendPerCustomerWithEmail(r) ==
    LET withEmail == SelectSeq(loc[r].customers, LAMBDA c : c.email # "")
    IN  /\ Len(CallsOf(r, "mail.send")) = Len(withEmail)
        /\ \A i \in DOMAIN withEmail :
               CallsOf(r, "mail.send")[i].key = withEmail[i].email
        /\ Len(sends[r]) = Len(withEmail)

\* handleApprovalFlowCreated runs on a flow with at least one pending
\* approver and an order id.
CreatedWithApproversAndOrder(r) ==
    /\ Routed(r)
    /\ Doc(request[r]).type = "ApprovalFlowCreated"
    /\ Doc(request[r]).approvalFlow.obj
    /\ Doc(request[r]).approvalFlow.hasPending
    /\ Len(Doc(request[r]).approvalFlow.pending) >= 1
    /\ Doc(request[r]).approvalFlow.order # ""

\* C4: as stated: every run of handleApprovalFlowCreated on a flow with a
\* pending approver and an order id makes exactly one order-state-transition
\* call, for orderNeedApprovalStateKey, and one send per fetched customer
\* with an email address.
C4_AsStated ==
    \A r \in Active :
        (CreatedWithApproversAndOrder(r) /\ Finished(r)) =>
            /\ EnteredOf(r, "transitionOrderState") =
                   <<[fn |-> "transitionOrderState",
                      key |-> config.orderNeedApprovalStateKey]>>
            /\ OneSendPerCustomerWithEmail(r)

\* C4, amended: such a run makes at most one order-state-transition call,
\* always for orderNeedApprovalStateKey: exactly one (and one order update)
\* when the handler returns normally, and none only when it failed before
\* step 3; it makes one send per fetched customer with an email address.
C4_Amended ==
    \A r \in Active :
        CreatedWithApproversAndOrder(r) =>
            /\ OneSendPerCustomerWithEmail(r)
            /\ Len(EnteredOf(r, "transitionOrderState")) <= 1
            /\ \A i \in DOMAIN EnteredOf(r, "transitionOrderState") :
                   EnteredOf(r, "transitionOrderState")[i].key =
                       config.orderNeedApprovalStateKey
            /\ ReturnedNormally(r) =>
                   /\ Len(EnteredOf(r, "transitionOrderState")) = 1
                   /\ CallsOf(r, "orders.update") =
                          <<Call("orders.update", config.orderNeedApprovalStateKey,
                                 loc[r].version, <<>>)>>
                   /\ \A i \in DOMAIN sends[r] : sends[r][i] = "sent"
            /\ (Finished(r) /\ EnteredOf(r, "transitionOrderState") = <<>>) =>
                   /\ err[r] # NoErr
                   /\ CallsOf(r, "orders.get") = <<>>
                   /\ CallsOf(r, "orders.update") = <<>>

C4_Witness ==
    \E r \in Active :
        /\ CreatedWithApproversAndOrder(r)
        /\ ReturnedNormally(r)
        /\ Len(loc[r].customers) = 3
        /\ Len(CallsOf(r, "mail.send")) = 2
        /\ order.state = config.orderNeedApprovalStateKey

\* C5: handleApprovalFlowCreated on a flow whose pending-approvers list is
\* empty or absent returns normally and has issued no remote call at all and
\* entered no other function, order id or not.
C5_NoApproversNoEffect ==
    \A r \in Active :
        ( /\ Routed(r)
          /\ Doc(request[r]).type = "ApprovalFlowCreated"
          /\ Doc(request[r]).approvalFlow.obj
          /\ Doc(request[r]).approvalFlow.pending = <<>> ) =>
            /\ ReturnedNormally(r)
            /\ calls[r] = <<>>
            /\ sends[r] = <<>>
            /\ invoked[r] =
                   <<[fn |-> "routeApprovalFlowMessage", key |-> "ApprovalFlowCreated"],
                     [fn |-> "handleApprovalFlowCreated", key |-> FlowId]>>

C5_Witness ==
    \E r \in Active :
        /\ Routed(r)
        /\ Doc(request[r]).type = "ApprovalFlowCreated"
        /\ Doc(request[r]).approvalFlow.obj
        /\ ~Doc(request[r]).approvalFlow.hasPending
        /\ Doc(request[r]).approvalFlow.order = OrderId
        /\ status[r] = 204

\* C6: as stated: an ApprovalFlowApproved envelope reaches
\* handleApprovalFlowApproved only with resource.id, associate.id and
\* order.id all present; with any of them missing the router throws a
\* CustomError of status 400 and no remote call is issued.
C6_AsStated ==
    \A r \in Active :
        (Routed(r) /\ Doc(request[r]).type = "ApprovalFlowApproved") =>
            LET present == /\ Doc(request[r]).resource.id # ""
                           /\ Doc(request[r]).associate.id # ""
                           /\ Doc(request[r]).order.id # ""
            IN  /\ EnteredOf(r, "handleApprovalFlowApproved") # <<>> => present
                /\ ~present =>
                       /\ pc[r] \in {"thrown", "responded"}
                       /\ err[r] = CustomError(400, "")
                       /\ calls[r] = <<>>

\* C7: as stated: an ApprovalFlowRejected or ApprovalFlowCompleted envelope
\* with resource.id and without an order id (no `order` object, or one
\* without id) is processed to a normal end with no remote call.
C7_AsStated ==
    \A r \in Active :
        ( /\ Routed(r)
          /\ Doc(request[r]).type \in {"ApprovalFlowRejected", "ApprovalFlowCompleted"}
          /\ Doc(request[r]).resource.id # ""
          /\ Doc(request[r]).order.id = "" ) =>
            /\ ReturnedNormally(r)
            /\ calls[r] = <<>>

\* C8: handleApprovalFlowApproved, once it has fetched an order with a
\* business unit key and an approval flow with no pending approver, returns
\* normally: one order fetch, one approval-flow fetch, and nothing else.
C8_ApprovedNothingPending ==
    \A r \in Active :
        ( /\ loc[r].handler = "handleApprovalFlowApproved"
          /\ loc[r].approvalFlowFetched
          /\ loc[r].currentTierPendingApprovers = <<>> ) =>
            /\ order.businessUnit # ""
            /\ ReturnedNormally(r)
            /\ calls[r] = <<Call("orders.get", OrderId, 0, <<>>),
                            Call("approvalFlows.get", FlowId, 0, <<>>)>>
            /\ sends[r] = <<>>
            /\ invoked[r] =
                   <<[fn |-> "routeApprovalFlowMessage", key |-> "ApprovalFlowApproved"],
                     [fn |-> "handleApprovalFlowApproved", key |-> FlowId],
                     [fn |-> "fetchOrder", key |-> OrderId],
                     [fn |-> "fetchApprovalFlow", key |-> FlowId]>>

C8_Witness ==
    \E r \in Active :
        /\ loc[r].handler = "handleApprovalFlowApproved"
        /\ loc[r].approvalFlowFetched
        /\ loc[r].currentTierPendingApprovers = <<>>
        /\ order.businessUnit = BusinessUnitKey
        /\ Doc(request[r]).associate.id = "cust1"
        /\ status[r] = 204

\* What handleApprovalFlowApproved has done in the current state.
ApprovedNeverTransitions ==
    \A r \in Active :
        loc[r].handler = "handleApprovalFlowApproved" =>
            /\ EnteredOf(r, "transitionOrderState") = <<>>
            /\ CallsOf(r, "states.query") = <<>>
            /\ CallsOf(r, "orders.update") = <<>>
            /\ OneSendPerCustomerWithEmail(r)
            /\ ( /\ ReturnedNormally(r)
                 /\ loc[r].currentTierPendingApprovers # <<>> ) =>
                   /\ Len(EnteredOf(r, "fetchCustomersByAssociateRoleKeysInBusinessUnit")) = 1
                   /\ Len(EnteredOf(r, "sendApprovalNotifications")) = 1
                   /\ Len(CallsOf(r, "associateRoles.get")) =
                          Len(loc[r].currentTierPendingApprovers)
                   /\ \A i \in DOMAIN sends[r] : sends[r][i] = "sent"

\* C9: no run of handleApprovalFlowApproved enters transitionOrderState or
\* issues an order update, on any path; with approvers still pending it
\* resolves the roles and sends the emails; and no step taken while it runs
\* changes the order's state or version.
C9_ApprovedLeavesOrderAlone ==
    /\ []ApprovedNeverTransitions
    /\ [][(\E r \in Reqs : loc[r].handler = "handleApprovalFlowApproved")
            => order' = order]_vars

C9_Witness ==
    \E r \in Active :
        /\ loc[r].handler = "handleApprovalFlowApproved"
        /\ ReturnedNormally(r)
        /\ Len(loc[r].currentTierPendingApprovers) = 2
        /\ Len(CallsOf(r, "mail.send")) = 2
        /\ \A i \in DOMAIN sends[r] : sends[r][i] = "sent"

\* C10: handleApprovalFlowRejectedOrCompleted with an order id calls
\* transitionOrderState exactly once, for orderRejectedStateKey when
\* isRejected and for orderApprovedStateKey otherwise; it fetches no
\* approval flow, looks up no role, business unit or customer and sends no
\* email; the update it issues, if it gets that far, is for that state.
C10_RejectedOrCompletedTransition ==
    \A r \in Active :
        ( /\ loc[r].handler = "handleApprovalFlowRejectedOrCompleted"
          /\ loc[r].orderId # "" ) =>
            LET stateKey ==
                    IF Doc(request[r]).type = "ApprovalFlowRejected"
                      THEN config.orderRejectedStateKey
                      ELSE config.orderApprovedStateKey
            IN  /\ EnteredOf(r, "transitionOrderState") =
                       <<[fn |-> "transitionOrderState", key |-> stateKey]>>
                /\ \A i \in DOMAIN calls[r] :
                       /\ calls[r][i].op \in {"orders.get", "states.query", "orders.update"}
                       /\ calls[r][i].op \in {"states.query", "orders.update"} =>
                              calls[r][i].key = stateKey
                /\ Len(CallsOf(r, "orders.update")) <= 1
                /\ sends[r] = <<>>
                /\ EnteredOf(r, "fetchApprovalFlow") = <<>>
                /\ EnteredOf(r, "fetchCustomersByAssociateRoleKeysInBusinessUnit") = <<>>
                /\ EnteredOf(r, "sendApprovalNotifications") = <<>>
                /\ ReturnedNormally(r) =>
                       /\ Len(CallsOf(r, "orders.update")) = 1
                       /\ order.state = stateKey

C10_Witness ==
    \E r \in Active :
        /\ loc[r].handler = "handleApprovalFlowRejectedOrCompleted"
        /\ Doc(request[r]).type = "ApprovalFlowRejected"
        /\ ReturnedNormally(r)
        /\ order.state = config.orderRejectedStateKey
        /\ order.version = 2

\* What sendBulkEmails has done in the current state: one send per
\* recipient; a failed send has made the call fail with a CustomError of
\* status 500, whatever the other sends did before or do after; the call is
\* over without an error only with every send fulfilled.
BulkEmailsOutcome ==
    \A r \in Active :
        EnteredOf(r, "sendBulkEmails") # <<>> =>
            /\ Len(EnteredOf(r, "sendBulkEmails")) = 1
            /\ OneSendPerCustomerWithEmail(r)
            /\ sends[r] # <<>>
            /\ (\E i \in DOMAIN sends[r] : sends[r][i] = "failed") =>
                   /\ pc[r] \in {"thrown", "responded"}
                   /\ err[r] = CustomError(500, "")
            /\ pc[r] = "awaitEmails" =>
                   /\ \A i \in DOMAIN sends[r] : sends[r][i] # "failed"
                   /\ \E i \in DOMAIN sends[r] : sends[r][i] = "pending"
            /\ (pc[r] # "awaitEmails" /\ err[r] # CustomError(500, "")) =>
                   \A i \in DOMAIN sends[r] : sends[r][i] = "sent"

\* The send calls are issued in the one step that enters sendBulkEmails,
\* all of them before any has settled.
SendsIssuedTogether ==
    \A r \in Reqs :
        CallsOf(r, "mail.send")' # CallsOf(r, "mail.send") =>
            \/ CallsOf(r, "mail.send")' = <<>>
            \/ /\ CallsOf(r, "mail.send") = <<>>
               /\ EnteredOf(r, "sendBulkEmails") = <<>>
               /\ EnteredOf(r, "sendBulkEmails")' # <<>>
               /\ pc'[r] = "awaitEmails"
               /\ Len(sends'[r]) = Len(CallsOf(r, "mail.send")')
               /\ \A i \in DOMAIN sends'[r] : sends'[r][i] = "pending"

\* C11: sendBulkEmails issues exactly one send call per recipient, all of
\* them before any is awaited; when any send fails the call fails with an
\* error (the first rejection wins) however many of the other sends are
\* done or get done later, and it succeeds only when every send succeeded.
C11_BulkEmailFanOut ==
    /\ []BulkEmailsOutcome
    /\ [][SendsIssuedTogether]_vars

\* One send is fulfilled, then another fails: the call has failed.
C11_Witness ==
    \E r \in Active :
        /\ sends[r] = <<"sent", "failed">>
        /\ pc[r] = "thrown"
        /\ err[r] = CustomError(500, "")

\* Invocation r is inside transitionOrderState, waiting for one of its
\* three remote calls.
InTransitionStep(r) ==
    /\ loc[r].inTransition
    /\ pc[r] \in {"awaitOrder", "awaitStates", "awaitUpdate"}

\* Every step of transitionOrderState either goes on to the next one or
\* throws a CustomError of status 400; the order changes only in the step
\* that accepts an update, and a step that throws changes nothing else.
TransitionStepFailsWith400 ==
    \A r \in Reqs :
        InTransitionStep(r) /\ pc'[r] # pc[r] =>
            \/ /\ pc[r] = "awaitOrder" /\ pc'[r] = "awaitStates"
               /\ order' = order
            \/ /\ pc[r] = "awaitStates" /\ pc'[r] = "awaitUpdate"
               /\ loc'[r].stateResponse = "found"
               /\ order' = order
            \/ /\ pc[r] = "awaitUpdate" /\ pc'[r] = "returned"
               /\ err'[r] = NoErr
               /\ order'.version = order.version + 1
               /\ order'.state = loc[r].stateKey
            \/ /\ pc'[r] = "thrown"
               /\ err'[r] = CustomError(400, "")
               /\ calls'[r] = calls[r]
               /\ order' = order

\* A transitionOrderState that is over succeeded or failed with status 400;
\* one whose state query matched nothing has issued no order update.
TransitionOutcome ==
    \A r \in Active :
        loc[r].inTransition =>
            /\ Finished(r) =>
                   \/ err[r] = NoErr /\ Len(CallsOf(r, "orders.update")) = 1
                   \/ err[r] = CustomError(400, "")
            /\ loc[r].stateResponse = "none" =>
                   /\ pc[r] \in {"thrown", "responded"}
                   /\ err[r] = CustomError(400, "")
                   /\ CallsOf(r, "orders.update") = <<>>
                   /\ Len(CallsOf(r, "orders.get")) = 1
                   /\ Len(CallsOf(r, "states.query")) = 1

\* C12: transitionOrderState fails with a CustomError of status 400 when
\* any of its steps fails: the order fetch, a state query that fails or
\* matches nothing, an update that is rejected.  When the key matches no
\* state, no order update is issued and the order is as it was.
C12_TransitionFailsWith400 ==
    /\ []TransitionOutcome
    /\ [][TransitionStepFailsWith400]_vars

\* The state query matched nothing and the order is untouched.
C12_Witness ==
    \E r \in Active :
        /\ loc[r].inTransition
        /\ loc[r].stateResponse = "none"
        /\ loc[r].stateKey = config.orderRejectedStateKey
        /\ pc[r] = "thrown"
        /\ err[r] = CustomError(400, "")
        /\ order.state = "open"
        /\ order.version = 1

\* C13: routing an envelope whose type is none of the five recognised ones,
\* or that has no type, throws a CustomError of status 400 whose message
\* carries the text of that type; no handler is entered and no remote call
\* is issued.
C13_UnsupportedTypeIs400 ==
    \A r \in Active :
        (Routed(r) /\ Doc(request[r]).type \notin RecognisedTypes) =>
            /\ pc[r] \in {"thrown", "responded"}
            /\ err[r] = CustomError(400, TemplateText(Doc(request[r]).type))
            /\ err[r].arg # ""
            /\ invoked[r] = <<[fn |-> "routeApprovalFlowMessage",
                               key |-> Doc(request[r]).type]>>
            /\ calls[r] = <<>>
            /\ sends[r] = <<>>

C13_Witness ==
    \E r \in Active :
        /\ Routed(r)
        /\ Doc(request[r]).type = "SomethingElse"
        /\ pc[r] = "thrown"
        /\ err[r] = CustomError(400, "SomethingElse")

\* C14: routing an ApprovalFlowCreated envelope without an approvalFlow
\* throws a CustomError of status 400; handleApprovalFlowCreated is not
\* entered and no remote call is issued.
C14_CreatedWithoutFlowIs400 ==
    \A r \in Active :
        ( /\ Routed(r)
          /\ Doc(request[r]).type = "ApprovalFlowCreated"
          /\ ~Doc(request[r]).approvalFlow.obj ) =>
            /\ pc[r] \in {"thrown", "responded"}
            /\ err[r] = CustomError(400, "")
            /\ EnteredOf(r, "handleApprovalFlowCreated") = <<>>
            /\ invoked[r] = <<[fn |-> "routeApprovalFlowMessage",
                               key |-> "ApprovalFlowCreated"]>>
            /\ calls[r] = <<>>
            /\ sends[r] = <<>>

C14_Witness ==
    \E r \in Active :
        /\ Routed(r)
        /\ Doc(request[r]).type = "ApprovalFlowCreated"
        /\ Doc(request[r]).approvalFlow = NoFlow
        /\ pc[r] = "responded"
        /\ err[r] = CustomError(400, "")

\* The delete calls of the current run of the connector script.
Deletes == SelectSeq(scriptCalls, LAMBDA c : c.op = "subscriptions.delete")

\* The lookup of the current run has answered.
LookedUp ==
    \/ scriptPc \in {"awaitDelete", "awaitCreate", "returned"}
    \/ scriptPc = "thrown" /\ Len(scriptCalls) > 1

\* C15: deleteApprovalFlowNotificationSubscription, run alone or from
\* createSubscription, looks the subscription up once by the key
\* approval-flow-notification; it issues no delete call when the lookup
\* returns nothing, and exactly one, for that key and with the version the
\* lookup returned, when it returns a subscription.
C15_DeleteOnlyWhatLookupFound ==
    scriptRun \in ScriptRuns =>
        /\ Head(scriptCalls) =
               Call("subscriptions.get", "approval-flow-notification", 0, <<>>)
        /\ Len(SelectSeq(scriptCalls, LAMBDA c : c.op = "subscriptions.get")) = 1
        /\ ~LookedUp => Deletes = <<>>
        /\ (LookedUp /\ scriptLoc = <<>>) => Deletes = <<>>
        /\ (LookedUp /\ scriptLoc # <<>>) =>
               Deletes = <<Call("subscriptions.delete",
                                "approval-flow-notification",
                                scriptLoc[1].version, <<>>)>>

C15_Witness ==
    /\ scriptRun = "deleteApprovalFlowNotificationSubscription"
    /\ scriptPc = "returned"
    /\ scriptLoc = <<Subscription(2)>>
    /\ Deletes # <<>>
    /\ Deletes[1].ver = 2
    /\ subscriptions = <<>>

\* Run i is a successful delete run that follows a successful delete run
\* with no successful createSubscription between the two.
RepeatedDelete(i) ==
    /\ history[i].run = "deleteApprovalFlowNotificationSubscription"
    /\ history[i].ok
    /\ \E j \in 1..(i - 1) :
        /\ history[j].run = "deleteApprovalFlowNotificationSubscription"
        /\ history[j].ok
        /\ \A k \in (j + 1)..(i - 1) :
               ~(history[k].run = "createSubscription" /\ history[k].ok)

DeletesOf(run) == SelectSeq(run.calls, LAMBDA c : c.op = "subscriptions.delete")

\* C16: run one after the other, every successful createSubscription
\* leaves exactly one subscription with the key approval-flow-notification
\* (having deleted the one it found before it posts), every successful
\* deleteApprovalFlowNotificationSubscription leaves none, and a delete run
\* repeated after a successful one issues no delete call.
C16_SubscriptionIdempotent ==
    /\ Len(subscriptions) <= 1
    /\ \A i \in DOMAIN history :
        LET h == history[i]
            before == IF i = 1 THEN 2 ELSE Len(history[i - 1].left)
        IN  /\ (h.run = "createSubscription" /\ h.ok) =>
                   /\ h.left = <<Subscription(1)>>
                   /\ h.calls[Len(h.calls)].op = "subscriptions.post"
                   /\ before = 1 => Len(DeletesOf(h)) = 1
                   /\ before = 0 => Len(DeletesOf(h)) = 0
            /\ (h.run = "deleteApprovalFlowNotificationSubscription" /\ h.ok) =>
                   h.left = <<>>
            /\ RepeatedDelete(i) => DeletesOf(h) = <<>>
    /\ (history # <<>> /\ scriptPc \in {"returned", "thrown"}) =>
           subscriptions = history[Len(history)].left

\* Two creations, then two deletions, all successful.
C16_Witness ==
    /\ Len(history) = 4
    /\ \A i \in 1..4 : history[i].ok
    /\ history[1].run = "createSubscription"
    /\ history[2].run = "createSubscription"
    /\ Len(DeletesOf(history[2])) = 1
    /\ history[3].run = "deleteApprovalFlowNotificationSubscription"
    /\ history[4].run = "deleteApprovalFlowNotificationSubscription"
    /\ subscriptions = <<>>

\* No remote call is issued a second time: one call at most of each kind,
\* but for the role and business-unit lookups (one per pending approver)
\* and the sends (one per recipient).
NoCallRepeated ==
    \A r \in Active :
        /\ \A op \in {"orders.get", "approvalFlows.get", "customers.query",
                      "states.query", "orders.update"} :
               Len(CallsOf(r, op)) <= 1
        /\ Len(CallsOf(r, "associateRoles.get")) <=
               Len(loc[r].currentTierPendingApprovers)
        /\ Len(CallsOf(r, "businessUnits.get")) <=
               Len(CallsOf(r, "associateRoles.get"))
        /\ Len(CallsOf(r, "mail.send")) <= Len(loc[r].customers)
        /\ pc[r] = "thrown" => err[r] # NoErr

\* The step in which an invocation fails issues no remote call, a failed
\* send that is awaited fails it at once, and from then on the invocation
\* issues nothing and keeps its error until it is over.
NothingAfterFailure ==
    \A r \in Reqs :
        /\ (err[r] = NoErr /\ err'[r] # NoErr) =>
               /\ pc'[r] = "thrown"
               /\ calls'[r] = calls[r]
        /\ ( /\ pc[r] = "awaitEmails"
             /\ \E i \in DOMAIN sends[r] :
                    sends[r][i] = "pending" /\ sends'[r][i] = "failed" ) =>
               /\ pc'[r] = "thrown"
               /\ err'[r] # NoErr
        /\ err[r] # NoErr =>
               \/ /\ calls'[r] = calls[r]
                  /\ invoked'[r] = invoked[r]
                  /\ err'[r] = err[r]
                  /\ pc'[r] \in {"thrown", "responded"}
                  /\ order' = order
               \/ /\ pc[r] = "responded"
                  /\ pc'[r] = "idle"

\* C17: nothing is retried.  Once an invocation has seen a remote call fail
\* (a platform call or a send) it issues no further remote call and ends
\* with that error; an invocation issues at most one order update.
C17_NoRetry ==
    /\ []NoCallRepeated
    /\ [][NothingAfterFailure]_vars

\* An update was rejected and the invocation is over: one update, no more.
C17_Witness ==
    \E r \in Active :
        /\ pc[r] = "responded"
        /\ err[r] = CustomError(400, "")
        /\ Len(CallsOf(r, "orders.update")) = 1
        /\ calls[r][Len(calls[r])].op = "orders.update"
        /\ Len(CallsOf(r, "mail.send")) = 2
        /\ order.state = "open"

\* Invocations a and b are both inside transitionOrderState, have fetched
\* the same version of the order and have both issued their update.
SameVersionRace(a, b) ==
    /\ a # b
    /\ loc[a].inTransition /\ loc[b].inTransition
    /\ CallsOf(a, "orders.update") # <<>>
    /\ CallsOf(b, "orders.update") # <<>>
    /\ loc[a].version = loc[b].version

\* Of two such runs at most one has its update accepted; the one that is
\* rejected ends with a CustomError of status 400 after its single update,
\* and the order is in the state of the accepted one.
RaceOutcome ==
    \A a \in Active, b \in Active :
        SameVersionRace(a, b) =>
            /\ ~(ReturnedNormally(a) /\ ReturnedNormally(b))
            /\ Len(CallsOf(a, "orders.update")) = 1
            /\ CallsOf(a, "orders.update")[1].ver = loc[a].version
            /\ (Finished(a) /\ ~ReturnedNormally(a)) =>
                   err[a] = CustomError(400, "")
            /\ ReturnedNormally(a) =>
                   /\ order.state = loc[a].stateKey
                   /\ order.version = loc[a].version + 1
                   /\ Finished(b) => err[b] = CustomError(400, "")

\* An update that carries a version the order no longer has is rejected:
\* the run throws, issues nothing more and the order stays as it is.
StaleUpdateRejected ==
    \A r \in Reqs :
        ( /\ pc[r] = "awaitUpdate"
          /\ loc[r].version # order.version
          /\ pc'[r] # pc[r] ) =>
            /\ pc'[r] = "thrown"
            /\ err'[r] = CustomError(400, "")
            /\ calls'[r] = calls[r]
            /\ order' = order

\* C18: two notifications about the same order handled concurrently can
\* both fetch the same order version; then one update at most is accepted
\* and the other is rejected for its version, its run ending with a generic
\* CustomError of status 400 without a second attempt; the state it asked
\* for is not applied, the order is in the state of the accepted update.
C18_LostTransitionOnRace ==
    /\ []RaceOutcome
    /\ [][StaleUpdateRejected]_vars

\* The interleaving: both runs fetched version 1, A's update was accepted,
\* B's was rejected.
C18_Witness ==
    \E a \in Active, b \in Active :
        /\ SameVersionRace(a, b)
        /\ loc[a].version = 1
        /\ loc[a].stateKey = config.orderApprovedStateKey
        /\ loc[b].stateKey = config.orderRejectedStateKey
        /\ ReturnedNormally(a)
        /\ pc[b] = "thrown"
        /\ err[b] = CustomError(400, "")
        /\ Len(CallsOf(b, "orders.update")) = 1
        /\ order.state = config.orderApprovedStateKey
        /\ order.version = 2

\* An invocation that has issued an order update issued it last, after the
\* state query and the order fetch of the same transitionOrderState call,
\* and with the version it keeps from that fetch.
UpdateFollowsItsFetch ==
    \A r \in Active :
        CallsOf(r, "orders.update") # <<>> =>
            LET n == Len(calls[r])
                k == Len(invoked[r])
            IN  /\ n >= 3
                /\ calls[r][n - 2] = Call("orders.get", loc[r].orderId, 0, <<>>)
                /\ calls[r][n - 1] = Call("states.query", loc[r].stateKey, 0, <<>>)
                /\ calls[r][n] = Call("orders.update", loc[r].stateKey,
                                      loc[r].version, <<>>)
                /\ invoked[r][k - 1].fn = "transitionOrderState"
                /\ invoked[r][k].fn = "fetchOrder"
                /\ Len(CallsOf(r, "orders.get")) = 1
                /\ loc[r].version \in 1..order.version

\* The version is taken from the answer to the fetch of transitionOrderState
\* and from nowhere else; it is kept until the invocation is over.
VersionFromTransitionFetch ==
    \A r \in Reqs :
        loc'[r].version # loc[r].version =>
            \/ /\ loc[r].inTransition
               /\ pc[r] = "awaitOrder"
               /\ pc'[r] = "awaitStates"
               /\ loc'[r].version = order.version
            \/ /\ pc'[r] = "idle"
               /\ loc'[r].version = 0

\* C19: every order update carries the version returned by the order fetch
\* made inside the same transitionOrderState call (fetch, then state query,
\* then update); no version from an earlier fetch of the handler is used.
C19_UpdateCarriesFreshVersion ==
    /\ []UpdateFollowsItsFetch
    /\ [][VersionFromTransitionFetch]_vars

\* A later invocation: the order is at version 2 by then and the update
\* carries 2.
C19_Witness ==
    \E r \in Active :
        /\ CallsOf(r, "orders.update") # <<>>
        /\ CallsOf(r, "orders.update")[1].ver = 2
        /\ ReturnedNormally(r)
        /\ order.version = 3

\* A run of handleApprovalFlowCreated has stopped before its step 3.
FailedBeforeTransition(r) ==
    /\ loc[r].handler = "handleApprovalFlowCreated"
    /\ Finished(r)
    /\ err[r] # NoErr
    /\ ~loc[r].inTransition

\* In handleApprovalFlowCreated the transition is entered only with the
\* customers resolved and every send fulfilled; a run in which a send
\* failed, or that failed before step 3, has failed for good and has issued
\* no order fetch, state query or order update.
TransitionOnlyAfterFanOut ==
    \A r \in Active :
        loc[r].handler = "handleApprovalFlowCreated" =>
            /\ EnteredOf(r, "transitionOrderState") # <<>> =>
                   /\ \A i \in DOMAIN sends[r] : sends[r][i] = "sent"
                   /\ Len(EnteredOf(r, "sendApprovalNotifications")) = 1
                   /\ Len(CallsOf(r, "associateRoles.get")) =
                          Len(loc[r].currentTierPendingApprovers)
                   /\ Len(CallsOf(r, "businessUnits.get")) =
                          Len(loc[r].currentTierPendingApprovers)
                   /\ loc[r].roleKeys = <<>>
            /\ ( \/ \E i \in DOMAIN sends[r] : sends[r][i] = "failed"
                 \/ FailedBeforeTransition(r) ) =>
                   /\ pc[r] \in {"thrown", "responded"}
                   /\ err[r] # NoErr
                   /\ EnteredOf(r, "transitionOrderState") = <<>>
                   /\ CallsOf(r, "orders.get") = <<>>
                   /\ CallsOf(r, "states.query") = <<>>
                   /\ CallsOf(r, "orders.update") = <<>>

\* Such a run leaves the order as it was, and a send that is fulfilled stays
\* fulfilled: nothing is issued to take it back.
FailureLeavesOrderAndEmails ==
    \A r \in Reqs :
        /\ ( /\ loc[r].handler = "handleApprovalFlowCreated"
             /\ ~loc[r].inTransition
             /\ ~loc'[r].inTransition ) => order' = order
        /\ \A i \in DOMAIN sends[r] :
               sends[r][i] = "sent" =>
                   \/ sends'[r] = <<>>
                   \/ /\ i \in DOMAIN sends'[r]
                      /\ sends'[r][i] = "sent"
                      /\ CallsOf(r, "mail.send")' = CallsOf(r, "mail.send")

\* C20: handleApprovalFlowCreated issues the transition only once the whole
\* email fan-out has succeeded.  When the customer resolution or a send
\* fails the handler fails, no order fetch or update is issued and the
\* order keeps its state, while the emails already sent stay sent.
C20_TransitionAfterFanOut ==
    /\ []TransitionOnlyAfterFanOut
    /\ [][FailureLeavesOrderAndEmails]_vars

\* One email went out, the other send failed: the handler failed, the order
\* was never fetched.
C20_Witness ==
    \E r \in Active :
        /\ loc[r].handler = "handleApprovalFlowCreated"
        /\ loc[r].orderId = OrderId
        /\ \E i, j \in DOMAIN sends[r] :
               sends[r][i] = "sent" /\ sends[r][j] = "failed"
        /\ pc[r] = "responded"
        /\ err[r] = CustomError(500, "")
        /\ CallsOf(r, "orders.get") = <<>>
        /\ order.state = "open"

\* The handler run of r is through the loop over the role keys: every key
\* of its pending-approvers list has been looked up.
RolesResolved(r) ==
    /\ EnteredOf(r, "fetchCustomersByAssociateRoleKeysInBusinessUnit") # <<>>
    /\ loc[r].roleKeys = <<>>

\* C21: as stated: the role keys are de-duplicated before they are
\* resolved, so that a handler run makes as many associate-role lookups,
\* and as many business-unit lookups, as the pending-approvers list has
\* distinct role keys.
C21_AsStated ==
    \A r \in Active :
        RolesResolved(r) =>
            /\ Len(CallsOf(r, "associateRoles.get")) =
                   Cardinality(Range(loc[r].currentTierPendingApprovers))
            /\ Len(CallsOf(r, "businessUnits.get")) =
                   Cardinality(Range(loc[r].currentTierPendingApprovers))

\* The customers that hold one of the given role keys in the business unit.
CustomersHolding(roleKeys) ==
    {Associates[i].customer :
        i \in {j \in DOMAIN Associates :
                  Associates[j].roles \cap Range(roleKeys) # {}}}

\* C22: a run of fetchCustomersByAssociateRoleKeysInBusinessUnit issues one
\* customer query at most, and none before the loop over the role keys is
\* over: exactly one, on the ids of all the collected references, when a
\* reference was collected, and none, with an empty list returned, when
\* none was.
C22_OneCustomerQuery ==
    \A r \in Active :
        /\ Len(CallsOf(r, "customers.query")) <= 1
        /\ ~RolesResolved(r) => CallsOf(r, "customers.query") = <<>>
        /\ RolesResolved(r) =>
               LET ids == CustomersHolding(loc[r].currentTierPendingApprovers)
               IN  /\ Range(loc[r].customerRefs) = ids
                   /\ ids = {} =>
                          /\ CallsOf(r, "customers.query") = <<>>
                          /\ loc[r].customers = <<>>
                          /\ EnteredOf(r, "sendApprovalNotifications") # <<>>
                   /\ ids # {} =>
                          /\ Len(CallsOf(r, "customers.query")) = 1
                          /\ CallsOf(r, "customers.query")[1].ids =
                                 loc[r].customerRefs
                          /\ Range(CallsOf(r, "customers.query")[1].ids) = ids
                          /\ Range(loc[r].customers) \subseteq
                                 {c \in Range(CustomerRecords) : c.id \in ids}

\* Roles r1 and r2: three customers, one of them under both roles, and one
\* query for them all.
C22_Witness ==
    \E r \in Active :
        /\ RolesResolved(r)
        /\ loc[r].currentTierPendingApprovers = <<"r1", "r2">>
        /\ Len(CallsOf(r, "customers.query")) = 1
        /\ CallsOf(r, "customers.query")[1].ids = <<"c1", "c2", "c2", "c3">>
        /\ Len(loc[r].customers) = 3

\* handleApprovalFlowApproved never gets past the fetch of an order that has
\* no business unit key: one order fetch and nothing else, and the run ends
\* normally unless the fetch itself failed.
ApprovedWithoutBusinessUnit ==
    \A r \in Active :
        (loc[r].handler = "handleApprovalFlowApproved" /\ order.businessUnit = "") =>
            /\ pc[r] \in {"awaitOrder", "returned", "thrown", "responded"}
            /\ calls[r] = <<Call("orders.get", loc[r].orderId, 0, <<>>)>>
            /\ sends[r] = <<>>
            /\ invoked[r] =
                   <<[fn |-> "routeApprovalFlowMessage", key |-> "ApprovalFlowApproved"],
                     [fn |-> "handleApprovalFlowApproved", key |-> FlowId],
                     [fn |-> "fetchOrder", key |-> loc[r].orderId]>>
            /\ err[r] \in {NoErr, CustomError(400, "")}

\* The order fetch of handleApprovalFlowApproved is answered, with an order
\* that has no business unit key: the handler returns or, the fetch having
\* failed, throws, and issues nothing.
StopsAfterOrderFetch ==
    \A r \in Reqs :
        ( /\ loc[r].handler = "handleApprovalFlowApproved"
          /\ order.businessUnit = ""
          /\ pc[r] = "awaitOrder"
          /\ pc'[r] # pc[r] ) =>
            /\ pc'[r] \in {"returned", "thrown"}
            /\ pc'[r] = "returned" <=> err'[r] = NoErr
            /\ calls'[r] = calls[r]
            /\ invoked'[r] = invoked[r]
            /\ order' = order

\* C23: when the order fetched by handleApprovalFlowApproved has no
\* business unit key the handler returns normally after that one order
\* fetch: no approval-flow fetch, no customer resolution, no email, no
\* transition.
C23_ApprovedStopsWithoutBusinessUnit ==
    /\ []ApprovedWithoutBusinessUnit
    /\ [][StopsAfterOrderFetch]_vars

C23_Witness ==
    \E r \in Active :
        /\ loc[r].handler = "handleApprovalFlowApproved"
        /\ loc[r].orderId = OrderId
        /\ order.businessUnit = ""
        /\ status[r] = 204
        /\ Len(calls[r]) = 1

\* The remote calls of r without the order version they carry.
Unversioned(r) == [i \in DOMAIN calls[r] |-> [calls[r][i] EXCEPT !.ver = 0]]

IsPrefix(s, t) == Len(s) <= Len(t) /\ s = SubSeq(t, 1, Len(s))

\* Invocations a and b were handed the same ApprovalFlowCreated envelope.
SameCreatedEnvelope(a, b) ==
    /\ a # b
    /\ request[a] = request[b]
    /\ Doc(request[a]).type = "ApprovalFlowCreated"

\* C24: nothing is remembered from one invocation to the next.  The same
\* ApprovalFlowCreated envelope handled twice in a row, with the approvers
\* unchanged, has every email sent twice and two order updates issued: the
\* second run does what the first did, call for call, but for the order
\* version its update carries.
C24_NoDedupAcrossInvocations ==
    \A a \in Active, b \in Active :
        (SameCreatedEnvelope(a, b) /\ ReturnedNormally(a)) =>
            /\ IsPrefix(Unversioned(b), Unversioned(a))
            /\ IsPrefix(invoked[b], invoked[a])
            /\ Len(CallsOf(a, "mail.send")) = 2
            /\ Len(CallsOf(a, "orders.update")) = 1
            /\ ReturnedNormally(b) =>
                   /\ Unversioned(b) = Unversioned(a)
                   /\ invoked[b] = invoked[a]
                   /\ CallsOf(b, "mail.send") = CallsOf(a, "mail.send")
                   /\ sends[b] = sends[a]
                   /\ Len(CallsOf(b, "orders.update")) = 1
                   /\ CallsOf(b, "orders.update")[1].ver # CallsOf(a, "orders.update")[1].ver
                   /\ order.state = config.orderNeedApprovalStateKey

\* The second run is over: two emails and one accepted update each.
C24_Witness ==
    \E a \in Active, b \in Active :
        /\ SameCreatedEnvelope(a, b)
        /\ status[a] = 204
        /\ status[b] = 204
        /\ CallsOf(a, "orders.update") # <<>>
        /\ CallsOf(b, "orders.update") # <<>>
        /\ CallsOf(a, "orders.update")[1].ver = 1
        /\ CallsOf(b, "orders.update")[1].ver = 2
        /\ sends[a] = <<"sent", "sent">>
        /\ sends[b] = <<"sent", "sent">>
        /\ order.version = 3

\* Invocation b ran after invocation a: it fetched the order in the version
\* that a's update produced.
RanAfter(b, a) ==
    /\ a # b
    /\ ReturnedNormally(a)
    /\ CallsOf(a, "orders.update") # <<>>
    /\ CallsOf(b, "orders.update") # <<>>
    /\ loc[b].version = loc[a].version + 1

\* The order is in the state of the update accepted last, whatever state
\* it was in before.
LastAcceptedWins ==
    \A a \in Active, b \in Active :
        (RanAfter(b, a) /\ ReturnedNormally(b)) =>
            /\ order.state = loc[b].stateKey
            /\ order.version = loc[b].version + 1

\* The step that changes the order is the acceptance of an update carrying
\* the order's version; it sets the state asked for and reads nothing else.
UpdateAppliedUnconditionally ==
    order' # order =>
        \E r \in Reqs :
            /\ pc[r] = "awaitUpdate"
            /\ pc'[r] = "returned"
            /\ loc[r].version = order.version
            /\ order' = [order EXCEPT !.version = @ + 1,
                                      !.state = loc[r].stateKey]

\* C25: the order ends in the state of the last accepted transition; its
\* current state and the place of the notification in the flow's life are
\* not looked at.  An ApprovalFlowCreated handled after the
\* ApprovalFlowCompleted or ApprovalFlowRejected for the same order, every
\* remote call succeeding, leaves the order in the needs-approval state.
C25_LastTransitionWins ==
    /\ []LastAcceptedWins
    /\ [][UpdateAppliedUnconditionally]_vars

\* Completed first, Created after it: the order is back to needs-approval.
C25_Witness ==
    \E a \in Active, b \in Active :
        /\ RanAfter(b, a)
        /\ Doc(request[a]).type = "ApprovalFlowCompleted"
        /\ loc[a].stateKey = config.orderApprovedStateKey
        /\ Doc(request[b]).type = "ApprovalFlowCreated"
        /\ status[b] = 204
        /\ \A i \in DOMAIN sends[b] : sends[b][i] = "sent"
        /\ order.state = config.orderNeedApprovalStateKey
        /\ order.version = 3

====
